---- MODULE Spec2Model ----
(***************************************************************************)
(* Region geometry and the HistoryTracker chain of                         *)
(* src/src/rosella/execution_engine/resource_state.rs, the Partition of    *)
(* src/src/rosella/execution_engine/partition.rs, and the                  *)
(* PlaceholderObjectSet of src/src/execution_engine/placeholder_objects.rs.*)
(*                                                                         *)
(* A Region<T, DIM> is a record [start, end] of two sequences of length    *)
(* DIM.  Option<X> is a sequence: <<>> is None and <<x>> is Some(x).       *)
(* A Vec is a sequence; the code's 0-based index i is element i + 1.       *)
(* A chain of RegionInfo boxes is the sequence of its nodes, head first:   *)
(* node k's `next` is the sub-sequence after k.                            *)
(***************************************************************************)
EXTENDS Integers, Sequences, FiniteSets, TLC

VARIABLES
    chain,     \* HistoryTracker.regions: the RegionInfo chain, head first
    call,      \* the last call on the tracker: its arguments and its outcome
    log,       \* the TransitionSystem callbacks made by the last call, in order
    fnCall,    \* geometry: the function applied and its arguments
    fnRet,     \* geometry: <<>> before the function ran, <<outcome>> after
    first,     \* Partition.first: the Entry chain, head first
    newest,    \* the number of nodes the latest override_regions_vec created
    set,       \* the PlaceholderObjectSet
    issued     \* the ImageViewIds the set has returned, each with the info passed

vars == <<chain, call, log, fnCall, fnRet, first, newest, set, issued>>

(***************************************************************************)
(* Bounds of the model.                                                    *)
(***************************************************************************)
\* coordinates of regions of two and more dimensions range over 0..MaxCoord
MaxCoord == 2
\* coordinates of one-dimensional regions range over 0..MaxCoord1
MaxCoord1 == 3
\* the region lists given to cut_regions and to the tracker hold at most
\* MaxRegions regions
MaxRegions == 2
\* override calls with overlapping lists are made on chains of fewer than
\* MaxNodes nodes
MaxNodes == 3
\* a PlaceholderObjectSet holds at most MaxObjects objects of each kind
MaxObjects == 2
\* the subresource and buffer ranges of view infos range over 0..MaxRange
MaxRange == 1
\* the values a Partition stores range over 0..MaxValue
MaxValue == 1

None == <<>>
Some(x) == <<x>>

(***************************************************************************)
(* Region                                                                  *)
(***************************************************************************)
Dim(r) == Len(r.start)

RECURSIVE VolumeFrom(_, _)
VolumeFrom(r, i) ==
    IF i > Dim(r) THEN 1 ELSE (r.end[i] - r.start[i]) * VolumeFrom(r, i + 1)

\* Region::volume
volume(r) == VolumeFrom(r, 1)

\* Region::intersects
intersects(self, other) ==
    \A i \in 1..Dim(self) :
        (self.end[i] > other.start[i]) /\ (other.end[i] > self.start[i])

Max2(a, b) == IF a >= b THEN a ELSE b
Min2(a, b) == IF a <= b THEN a ELSE b

\* intersection that starts the result at the start of self
intersection_self_start(self, other) ==
    LET result == [start |-> self.start,
                   end   |-> [i \in 1..Dim(self) |-> Min2(self.end[i], other.end[i])]]
    IN  IF \E i \in 1..Dim(self) : result.end[i] <= result.start[i]
        THEN None
        ELSE Some(result)

\* Region::intersection
intersection(self, other) ==
    LET result == [start |-> [i \in 1..Dim(self) |-> Max2(self.start[i], other.start[i])],
                   end   |-> [i \in 1..Dim(self) |-> Min2(self.end[i], other.end[i])]]
    IN  IF \E i \in 1..Dim(self) : result.end[i] <= result.start[i]
        THEN None
        ELSE Some(result)

\* CutLow whose slice keeps the end of self
CutLow_unclipped(st, tool, a) ==
    IF st.self.start[a] < tool.start[a] /\ st.self.end[a] > tool.start[a]
    THEN [self        |-> [st.self EXCEPT !.start[a] = tool.start[a]],
          splits      |-> Append(st.splits, st.self),
          split_count |-> st.split_count + 1,
          fail        |-> FALSE]
    ELSE [st EXCEPT !.fail = TRUE]

\* Region::cut, the loop body for dimension a, on st = [self, splits,
\* split_count, fail].  `let mut fail = true` and the first `if`: the slice
\* on the low side of the tool
CutLow(st, tool, a) ==
    IF st.self.start[a] < tool.start[a] /\ st.self.end[a] > tool.start[a]
    THEN [self        |-> [st.self EXCEPT !.start[a] = tool.start[a]],
          splits      |-> Append(st.splits, [st.self EXCEPT !.end[a] = tool.start[a]]),
          split_count |-> st.split_count + 1,
          fail        |-> FALSE]
    ELSE [st EXCEPT !.fail = TRUE]

\* CutHigh that pushes the slice and leaves the end of self where it was
CutHigh_keeps_end(st, tool, a) ==
    IF st.self.end[a] > tool.end[a] /\ st.self.start[a] < tool.end[a]
    THEN [self        |-> st.self,
          splits      |-> Append(st.splits, [st.self EXCEPT !.start[a] = tool.end[a]]),
          split_count |-> st.split_count + 1,
          fail        |-> FALSE]
    ELSE st

\* the second `if`: the slice on the high side of the tool
CutHigh(st, tool, a) ==
    IF st.self.end[a] > tool.end[a] /\ st.self.start[a] < tool.end[a]
    THEN [self        |-> [st.self EXCEPT !.end[a] = tool.end[a]],
          splits      |-> Append(st.splits, [st.self EXCEPT !.start[a] = tool.end[a]]),
          split_count |-> st.split_count + 1,
          fail        |-> FALSE]
    ELSE st

\* CutInside that wants self strictly inside the tool
CutInside_strict(st, tool, a) ==
    IF st.self.start[a] > tool.start[a] /\ st.self.end[a] < tool.end[a]
    THEN [st EXCEPT !.fail = FALSE]
    ELSE st

\* the third `if`: self lies inside the tool in dimension a
CutInside(st, tool, a) ==
    IF st.self.start[a] >= tool.start[a] /\ st.self.end[a] <= tool.end[a]
    THEN [st EXCEPT !.fail = FALSE]
    ELSE st

\* CutDimension that takes the slice on the high side first
CutDimension_high_first(st, tool, a) ==
    CutInside(CutLow(CutHigh([st EXCEPT !.fail = TRUE], tool, a), tool, a), tool, a)

\* Region::cut, the loop body for dimension a
CutDimension(st, tool, a) == CutInside(CutHigh(CutLow(st, tool, a), tool, a), tool, a)

RECURSIVE CutLoop(_, _, _, _)
\* `if fail`: st is the state after the three tests of dimension a
CutFail(st, tool, a, reset_count) ==
    IF st.fail
    THEN [ret    |-> None,
          self   |-> st.self,
          splits |-> SubSeq(st.splits, 1, reset_count)]
    ELSE CutLoop(st, tool, a + 1, reset_count)

\* Region::cut, the loop over the dimensions
CutLoop(st, tool, a, reset_count) ==
    IF a > Dim(tool)
    THEN [ret |-> Some(st.split_count), self |-> st.self, splits |-> st.splits]
    ELSE CutFail(CutDimension(st, tool, a), tool, a, reset_count)

\* Region::cut(&mut self, tool, splits): [ret, self, splits] are the returned
\* Option<u8> and the two &mut arguments after the call.
cut(self, tool, splits) ==
    CutLoop([self |-> self, splits |-> splits, split_count |-> 0, fail |-> FALSE],
            tool, 1, Len(splits))

\* Vec::swap_remove(i), i 0-based: the last element takes the place of element i.
swap_remove(v, i) ==
    IF i + 1 = Len(v)
    THEN SubSeq(v, 1, Len(v) - 1)
    ELSE [k \in 1..(Len(v) - 1) |-> IF k = i + 1 THEN v[Len(v)] ELSE v[k]]

RECURSIVE CutRegionsLoop(_, _)
\* CutRegionsTail that always advances the index, also past an unvisited
\* candidate that swap_remove has just moved to the place of the removed one
CutRegionsTail_advances(self, st) ==
    IF st.tail_count = 0
    THEN CutRegionsLoop(self, [st EXCEPT !.tool_count = @ - 1, !.i = @ + 1])
    ELSE CutRegionsLoop(self, [st EXCEPT !.i = @ + 1, !.tail_count = @ - 1])

\* Region::cut_regions, `if tail_count == 0` after a successful cut
CutRegionsTail(self, st) ==
    IF st.tail_count = 0
    THEN CutRegionsLoop(self, [st EXCEPT !.tool_count = @ - 1])
    ELSE CutRegionsLoop(self, [st EXCEPT !.i = @ + 1, !.tail_count = @ - 1])

\* Region::cut_regions, `match current.cut(self, regions)`; c is what the cut
\* gave: c.self is `current` and c.splits is `regions` after it
CutRegionsMatch(self, st, c) ==
    IF c.ret # None
    THEN CutRegionsTail(self, [st EXCEPT !.tail_count = @ + c.ret[1],
                                         !.regions = swap_remove(c.splits, st.i),
                                         !.volume = @ + volume(c.self),
                                         !.intersections = Append(@, c.self)])
    ELSE CutRegionsLoop(self, [st EXCEPT !.i = @ + 1])

\* Region::cut_regions, the while loop; st = [regions, intersections, volume,
\* tool_count, tail_count, i].
CutRegionsLoop(self, st) ==
    IF ~(st.i < st.tool_count)
    THEN st
    ELSE CutRegionsMatch(self, st, cut(st.regions[st.i + 1], self, st.regions))

\* Region::cut_regions(&self, regions, intersections): the locals when the loop
\* ends; `volume` is returned, `regions` and `intersections` are the two &mut
\* Vecs after the call.
cut_regions(self, regions, intersections) ==
    CutRegionsLoop(self, [regions |-> regions, intersections |-> intersections,
                          volume |-> 0, tool_count |-> Len(regions),
                          tail_count |-> 0, i |-> 0])

(***************************************************************************)
(* TransitionSystem: the trait has no implementation in the repository.    *)
(* The model's implementation records every callback in `log`, sets the    *)
(* flag `touched` of the value it is given, and creates untouched values   *)
(* that carry an id no live value has.  ts = [log, ids]: the callbacks so  *)
(* far and the ids in use.                                                 *)
(*                                                                         *)
(* The id of a value stands for the address of its Box: it names the node  *)
(* that owns the value for as long as the node lives.  Which addresses the *)
(* boxes have does not matter to the code, so a state keeps the chain with *)
(* its boxes renamed by their place in the chain (node k has id k), and    *)
(* `call.ids` keeps, for each node, the id it had during the last call.    *)
(***************************************************************************)
FreshId(ids) == CHOOSE n \in 1..(Cardinality(ids) + 1) : n \notin ids /\ \A m \in 1..(n - 1) : m \in ids

Callback(cb, affected_regions, value, value_region) ==
    [cb |-> cb, affected_regions |-> affected_regions, value |-> value,
     value_region |-> value_region]

\* TransitionSystem::on_update
on_update(ts, affected_regions, value, value_region) ==
    [ts    |-> [ts EXCEPT !.log = Append(@, Callback("on_update", affected_regions, value, value_region))],
     value |-> [value EXCEPT !.touched = TRUE]]

\* TransitionSystem::on_override
on_override(ts, affected_regions, value, value_region) ==
    [ts    |-> [ts EXCEPT !.log = Append(@, Callback("on_override", affected_regions, value, value_region))],
     value |-> [value EXCEPT !.touched = TRUE]]

\* the Box<V> that on_create returns
NewValue(ts) == [id |-> FreshId(ts.ids), touched |-> FALSE]

\* TransitionSystem::on_create
on_create(ts, value_region) ==
    [ts    |-> [log |-> Append(ts.log, Callback("on_create", <<>>, NewValue(ts), value_region)),
                ids |-> ts.ids \cup {NewValue(ts).id}],
     value |-> NewValue(ts)]

(***************************************************************************)
(* RegionInfo: a node is [region, active_volume, value]; a chain is the    *)
(* sequence of its nodes, so `next` of node k is the rest of the sequence. *)
(***************************************************************************)
\* RegionInfo::new_next, without the link
new_next(region, value) ==
    [region |-> region, active_volume |-> volume(region), value |-> value]

RECURSIVE CreateRegionsLoop(_, _, _, _)
\* RegionInfo::create_regions, the second statement of the loop body; c is
\* what on_create gave
CreateRegionsPush(c, regions, k, next) ==
    CreateRegionsLoop(c.ts, regions, k + 1, <<new_next(regions[k], c.value)>> \o next)

\* RegionInfo::create_regions, the loop
CreateRegionsLoop(ts, regions, k, next) ==
    IF k > Len(regions)
    THEN [ts |-> ts, chain |-> next]
    ELSE CreateRegionsPush(on_create(ts, regions[k]), regions, k, next)

\* create_regions that makes no node for the first region of the list
create_regions_skips_first(ts, regions, next) == CreateRegionsLoop(ts, regions, 2, next)

\* RegionInfo::create_regions: [ts, chain], the new chain put before `next`
create_regions(ts, regions, next) == CreateRegionsLoop(ts, regions, 1, next)

\* a call with the node put before the chain it gave
Prepend(node, r) == [r EXCEPT !.chain = <<node>> \o @]

RECURSIVE chain_update(_, _, _)
\* ChainUpdateNext with the subtraction of chain_override copied into it
ChainUpdateNext_subtract(nodes, cr, cb) ==
    IF Tail(nodes) = <<>>
    THEN [chain |-> <<[Head(nodes) EXCEPT !.value = cb.value,
                                          !.active_volume = @ - cr.volume]>>,
          ts |-> cb.ts, regions |-> cr.regions, intersection_vec |-> cr.intersections]
    ELSE Prepend([Head(nodes) EXCEPT !.value = cb.value, !.active_volume = @ - cr.volume],
                 chain_update(Tail(nodes), cb.ts, cr.regions))

\* RegionInfo::chain_update, `match self.next`; cr is what cut_regions gave and
\* cb what the callback gave
ChainUpdateNext(nodes, cr, cb) ==
    IF Tail(nodes) = <<>>
    THEN [chain |-> <<[Head(nodes) EXCEPT !.value = cb.value]>>,
          ts |-> cb.ts, regions |-> cr.regions, intersection_vec |-> cr.intersections]
    ELSE Prepend([Head(nodes) EXCEPT !.value = cb.value],
                 chain_update(Tail(nodes), cb.ts, cr.regions))

\* ChainUpdateCall without the test for an empty intersection_vec
ChainUpdateCall_always(nodes, ts, cr) ==
    ChainUpdateNext(nodes, cr,
        on_update(ts, cr.intersections, Head(nodes).value, Head(nodes).region))

\* RegionInfo::chain_update, `if !intersection_vec.is_empty()`
ChainUpdateCall(nodes, ts, cr) ==
    ChainUpdateNext(nodes, cr,
        IF cr.intersections # <<>>
        THEN on_update(ts, cr.intersections, Head(nodes).value, Head(nodes).region)
        ELSE [ts |-> ts, value |-> Head(nodes).value])

\* chain_update that hands the next node the regions it was given itself
\* instead of what its own cut has left of them
chain_update_same_regions(nodes, ts, regions) ==
    ChainUpdateCall(nodes, ts,
        [cut_regions(Head(nodes).region, regions, <<>>) EXCEPT !.regions = regions])

\* RegionInfo::chain_update on the head of `nodes`; intersection_vec is cleared
\* on entry, so its value on entry is not a parameter.
\* [chain, ts, regions, intersection_vec] after the call.
chain_update(nodes, ts, regions) ==
    ChainUpdateCall(nodes, ts, cut_regions(Head(nodes).region, regions, <<>>))

\* RegionInfo::chain_override, `if self.active_volume == T::zero()`; sub is
\* what the call on the next node gave
ChainOverrideReturn(self, sub) ==
    LET next == IF sub.ret # None THEN sub.ret[1] ELSE sub.chain
    IN  IF self.active_volume = 0
        THEN [sub EXCEPT !.ret = Some(next), !.chain = <<self>>]
        ELSE [sub EXCEPT !.ret = None, !.chain = <<self>> \o next]

RECURSIVE chain_override(_, _, _)
\* RegionInfo::chain_override, `match self.next`
ChainOverrideNext(self, rest, cr, cb) ==
    ChainOverrideReturn([self EXCEPT !.value = cb.value],
        IF rest = <<>>
        THEN [ret |-> None, chain |-> <<>>, ts |-> cb.ts, regions |-> cr.regions,
              intersection_vec |-> cr.intersections]
        ELSE chain_override(rest, cb.ts, cr.regions))

\* ChainOverrideCall that subtracts from the volume of the region instead of
\* from what earlier calls have left in active_volume
ChainOverrideCall_recomputed(nodes, ts, cr) ==
    ChainOverrideNext([Head(nodes) EXCEPT !.active_volume = volume(Head(nodes).region) - cr.volume],
        Tail(nodes), cr,
        IF cr.intersections # <<>>
        THEN on_override(ts, cr.intersections, Head(nodes).value, Head(nodes).region)
        ELSE [ts |-> ts, value |-> Head(nodes).value])

\* RegionInfo::chain_override, the subtraction and `if
\* !intersection_vec.is_empty()`; cr is what cut_regions gave
ChainOverrideCall(nodes, ts, cr) ==
    ChainOverrideNext([Head(nodes) EXCEPT !.active_volume = @ - cr.volume],
        Tail(nodes), cr,
        IF cr.intersections # <<>>
        THEN on_override(ts, cr.intersections, Head(nodes).value, Head(nodes).region)
        ELSE [ts |-> ts, value |-> Head(nodes).value])

\* chain_override that hands the next node the regions it was given itself
\* instead of what its own cut has left of them
chain_override_same_regions(nodes, ts, regions) ==
    ChainOverrideCall(nodes, ts,
        [cut_regions(Head(nodes).region, regions, <<>>) EXCEPT !.regions = regions])

\* RegionInfo::chain_override on the head of `nodes`.  ret is the returned
\* Option<Option<Box<Self>>>: None, or Some(the chain taken from self.next);
\* chain is self with what is left linked to it.
chain_override(nodes, ts, regions) ==
    ChainOverrideCall(nodes, ts, cut_regions(Head(nodes).region, regions, <<>>))

\* push_to_end that links `end` before the nodes
push_to_end_front(nodes, end) == end \o nodes

\* RegionInfo::push_to_end
push_to_end(nodes, end) == nodes \o end

(***************************************************************************)
(* HistoryTracker: `regions` is the chain (<<>> is None).  Both calls give *)
(* [panic, chain, ts, regions]: whether the call panicked, the tracker's   *)
(* chain, the TransitionSystem and the caller's `regions` after the call.  *)
(***************************************************************************)
\* HistoryTracker::is_empty
is_empty(self) == self = <<>>

Panicked(self, ts, regions) ==
    [panic |-> TRUE, chain |-> self, ts |-> ts, regions |-> regions]

Returned(chain_after, ts, regions) ==
    [panic |-> FALSE, chain |-> chain_after, ts |-> ts, regions |-> regions]

\* HistoryTracker::update_regions_vec, `match self.regions`; r is what
\* chain_update gave
UpdateDone(r) == Returned(r.chain, r.ts, r.regions)

\* HistoryTracker::update_regions_vec
update_regions_vec(self, ts, regions) ==
    IF regions = <<>>
    THEN Panicked(self, ts, regions)
    ELSE IF self # <<>>
         THEN UpdateDone(chain_update(self, ts, regions))
         ELSE Returned(self, ts, regions)

\* OverrideLink that links the old first node itself behind the new nodes
\* instead of the chain taken from it
OverrideLink_keeps_first(new_regions, r) ==
    Returned(IF r.ret # None /\ r.ret[1] # <<>> /\ new_regions.chain # <<>>
             THEN push_to_end(new_regions.chain, r.chain \o r.ret[1])
             ELSE new_regions.chain,
             r.ts, r.regions)

\* OverrideLink that keeps the old chain and forgets the new nodes
OverrideLink_drops_new(new_regions, r) ==
    Returned(IF r.ret # None THEN r.ret[1] ELSE r.chain, r.ts, r.regions)

\* HistoryTracker::override_regions_vec, what becomes of the chain; r is
\* what chain_override on the old first node gave
OverrideLink(new_regions, r) ==
    Returned(IF r.ret # None /\ r.ret[1] # <<>> /\ new_regions.chain # <<>>
             THEN push_to_end(new_regions.chain, r.ret[1])
             ELSE new_regions.chain,
             r.ts, r.regions)

\* HistoryTracker::override_regions_vec, `if let Some(ref mut first) =
\* self.regions`; new_regions is what create_regions gave
OverrideOld(self, regions, new_regions) ==
    IF self # <<>>
    THEN OverrideLink(new_regions, chain_override(self, new_regions.ts, regions))
    ELSE Returned(new_regions.chain, new_regions.ts, regions)

\* override_regions_vec without the test for an empty region list
override_regions_vec_unchecked(self, ts, regions) ==
    OverrideOld(self, regions, create_regions(ts, regions, <<>>))

\* HistoryTracker::override_regions_vec
override_regions_vec(self, ts, regions) ==
    IF regions = <<>>
    THEN Panicked(self, ts, regions)
    ELSE OverrideOld(self, regions, create_regions(ts, regions, <<>>))

(***************************************************************************)
(* Extent (src/src/rosella/execution_engine/partition.rs): a record        *)
(* [start, end] like a Region.                                             *)
(***************************************************************************)
RECURSIVE GetOverlapLoop(_, _, _, _)
\* Extent::get_overlap, the loop; res is [start, end] as filled so far
GetOverlapLoop(self, other, i, res) ==
    IF i > Dim(self)
    THEN Some(res)
    ELSE IF Max2(self.start[i], other.start[i]) >= Min2(self.end[i], other.end[i])
         THEN None
         ELSE GetOverlapLoop(self, other, i + 1,
                  [start |-> Append(res.start, Max2(self.start[i], other.start[i])),
                   end   |-> Append(res.end, Min2(self.end[i], other.end[i]))])

\* get_overlap that gives an extent when the two only touch
get_overlap_touching(self, other) ==
    IF \E i \in 1..Dim(self) :
           Max2(self.start[i], other.start[i]) > Min2(self.end[i], other.end[i])
    THEN None
    ELSE Some([start |-> [i \in 1..Dim(self) |-> Max2(self.start[i], other.start[i])],
               end   |-> [i \in 1..Dim(self) |-> Min2(self.end[i], other.end[i])]])

\* Extent::get_overlap
get_overlap(self, other) == GetOverlapLoop(self, other, 1, [start |-> <<>>, end |-> <<>>])

(***************************************************************************)
(* Partition: an Entry is [extent, value]; an EntryChain is the sequence   *)
(* of its entries, so `next` of entry k is the rest of the sequence.  The  *)
(* transition function is a record f, and every call of it is appended to  *)
(* the sequence lg as [extent, value], value being the Option<&V> it got.  *)
(***************************************************************************)
\* the closure F called on (extent, value): a TransitionAction [kind, value].
\* The closures of the model: one that always gives Ignore, one that always
\* gives Update(f.value), one that always gives Clear, and one that gives
\* Clear for an entry that holds f.value and Ignore otherwise.
transition_function(f, extent, value) ==
    CASE f.kind = "Ignore" -> [kind |-> "Ignore", value |-> f.value]
      [] f.kind = "Update" -> [kind |-> "Update", value |-> f.value]
      [] f.kind = "Clear"  -> [kind |-> "Clear", value |-> f.value]
      [] f.kind = "ClearValue" ->
             [kind |-> IF value = Some(f.value) THEN "Clear" ELSE "Ignore", value |-> f.value]

\* lg with one more call of the closure
Called(lg, extent, value) == Append(lg, [extent |-> extent, value |-> value])

\* Entry::new, without the link
Entry_new(extent, value) == [extent |-> extent, value |-> value]

RECURSIVE Reverse(_)
Reverse(v) == IF v = <<>> THEN <<>> ELSE Append(Reverse(Tail(v)), Head(v))

RECURSIVE Entry_transition(_, _, _, _)
\* Entry::transition_recurse, `match next.transition(..)`; r is what the call
\* on the next entry gave
RecurseNext(self, r) ==
    [chain |-> <<self>> \o (IF r.ret # None THEN r.ret[1] ELSE r.chain), log |-> r.log]

\* Entry::transition_recurse on the head of `nodes`: [chain, log]
transition_recurse(nodes, extent, f, lg) ==
    IF Tail(nodes) # <<>>
    THEN RecurseNext(Head(nodes), Entry_transition(Tail(nodes), extent, f, lg))
    ELSE [chain |-> nodes, log |-> lg]

\* the loop state of transition_split after a transition_recurse that gave r
SplitRecursed(st, r) == [st EXCEPT !.chain = r.chain, !.log = r.log]

\* Entry::transition_split, the loop body for dimension i on
\* st = [chain, new_chain, log], self being the head of st.chain.  The first
\* `if`: the part of extent below self goes to the later entries
SplitBelow(st, extent, f, i) ==
    IF extent.start[i] < st.chain[1].extent.start[i]
    THEN SplitRecursed(st,
             transition_recurse(st.chain, [extent EXCEPT !.end[i] = st.chain[1].extent.start[i]],
                                f, st.log))
    ELSE st

\* SplitAbove that does not go to the later entries
SplitAbove_skips(st, extent, f, i) == st

\* the second `if`: the part of extent above self goes to the later entries
SplitAbove(st, extent, f, i) ==
    IF extent.end[i] > st.chain[1].extent.end[i]
    THEN SplitRecursed(st,
             transition_recurse(st.chain, [extent EXCEPT !.start[i] = st.chain[1].extent.end[i]],
                                f, st.log))
    ELSE st

\* KeepBelow that shrinks self and makes no entry of the part it cuts off
KeepBelow_drops(st, extent, i) ==
    IF st.chain[1].extent.start[i] < extent.start[i]
    THEN [st EXCEPT !.chain[1].extent.start[i] = extent.start[i]]
    ELSE st

\* the third `if`: the part of self below extent becomes an entry of its own
KeepBelow(st, extent, i) ==
    IF st.chain[1].extent.start[i] < extent.start[i]
    THEN [st EXCEPT !.new_chain = Append(@, Entry_new([st.chain[1].extent EXCEPT !.end[i] = extent.start[i]],
                                                      st.chain[1].value)),
                    !.chain[1].extent.start[i] = extent.start[i]]
    ELSE st

\* KeepAbove that makes an entry of the part above extent and leaves the end
\* of self where it was
KeepAbove_keeps_end(st, extent, i) ==
    IF st.chain[1].extent.end[i] > extent.end[i]
    THEN [st EXCEPT !.new_chain = Append(@, Entry_new([st.chain[1].extent EXCEPT !.start[i] = extent.end[i]],
                                                      st.chain[1].value))]
    ELSE st

\* the fourth `if`: the part of self above extent becomes an entry of its own
KeepAbove(st, extent, i) ==
    IF st.chain[1].extent.end[i] > extent.end[i]
    THEN [st EXCEPT !.new_chain = Append(@, Entry_new([st.chain[1].extent EXCEPT !.start[i] = extent.end[i]],
                                                      st.chain[1].value)),
                    !.chain[1].extent.end[i] = extent.end[i]]
    ELSE st

\* Entry::transition_split, the loop body for dimension i
SplitDimension(st, extent, f, i) ==
    KeepAbove(KeepBelow(SplitAbove(SplitBelow(st, extent, f, i), extent, f, i), extent, i),
              extent, i)

RECURSIVE SplitLoop(_, _, _, _)
\* Entry::transition_split, the loop over the dimensions
SplitLoop(st, extent, f, i) ==
    IF i > Dim(extent)
    THEN st
    ELSE SplitLoop(SplitDimension(st, extent, f, i), extent, f, i + 1)

\* Entry::transition_split, the second loop: every new entry is linked before
\* the ones linked so far, and the last of them becomes self.next
SplitLink(st) ==
    [chain |-> <<Head(st.chain)>> \o Reverse(st.new_chain) \o Tail(st.chain), log |-> st.log]

\* Entry::transition_split on the head of `nodes`: [chain, log]
transition_split(nodes, extent, f, lg) ==
    SplitLink(SplitLoop([chain |-> nodes, new_chain |-> <<>>, log |-> lg], extent, f, 1))

\* Entry::transition, the arms that return None; r is the chain and the log
EntryKept(r) == [ret |-> None, chain |-> r.chain, log |-> r.log]

\* Entry::transition, the arm of Update; r is what transition_split gave
EntryUpdated(r, value) ==
    [ret |-> None, chain |-> [r.chain EXCEPT ![1].value = value], log |-> r.log]

\* Entry::transition, the arm of Clear: Some(self.next.take())
EntryCleared(r) ==
    [ret |-> Some(Tail(r.chain)), chain |-> <<Head(r.chain)>>, log |-> r.log]

\* Entry::transition, `match transition_function(&overlap, ..)`; lg holds the
\* call of the closure that gave `action`
EntryAction(nodes, extent, f, lg, action) ==
    CASE action.kind = "Ignore" -> EntryKept(transition_recurse(nodes, extent, f, lg))
      [] action.kind = "Update" -> EntryUpdated(transition_split(nodes, extent, f, lg), action.value)
      [] action.kind = "Clear"  -> EntryCleared(transition_split(nodes, extent, f, lg))

\* Entry::transition, `match self.extent.get_overlap(&extent)`
EntryOverlap(nodes, extent, f, lg, overlap) ==
    IF overlap # None
    THEN EntryAction(nodes, extent, f, Called(lg, overlap[1], Some(Head(nodes).value)),
                     transition_function(f, overlap[1], Some(Head(nodes).value)))
    ELSE EntryKept(transition_recurse(nodes, extent, f, lg))

\* Entry::transition on the head of `nodes`.  ret is the returned
\* Option<EntryChain>: None, or Some(the chain taken from self.next); chain is
\* self with what is left linked to it.
Entry_transition(nodes, extent, f, lg) ==
    EntryOverlap(nodes, extent, f, lg, get_overlap(Head(nodes).extent, extent))

\* Partition::transition, the arm of None; lg holds the call of the closure
\* that gave `action`
PartitionNone(extent, lg, action) ==
    [first |-> IF action.kind = "Update" THEN <<Entry_new(extent, action.value)>> ELSE <<>>,
     log |-> lg]

\* Partition::transition, the arm of Some; r is what the first entry gave
PartitionSome(r) ==
    [first |-> IF r.ret # None THEN r.ret[1] ELSE r.chain, log |-> r.log]

\* Partition::transition: [first, log], the chain and the calls of the
\* closure after the call
Partition_transition(self, extent, f, lg) ==
    IF self = <<>>
    THEN PartitionNone(extent, Called(lg, extent, None), transition_function(f, extent, None))
    ELSE PartitionSome(Entry_transition(self, extent, f, lg))

\* Partition::is_empty
Partition_is_empty(self) == self = <<>>

\* PartitionIterator::new: `current` is None or Some(the chain from the
\* current entry on)
PartitionIterator_new(self) == IF self = <<>> THEN None ELSE Some(self)

\* PartitionIterator::next: [current, item]
PartitionIterator_next(current) ==
    IF current = None
    THEN [current |-> None, item |-> None]
    ELSE IF Tail(current[1]) = <<>>
         THEN [current |-> None, item |-> None]
         ELSE [current |-> Some(Tail(current[1])),
               item |-> Some(<<current[1][2].extent, current[1][2].value>>)]

RECURSIVE IterLoop(_, _)
\* a `for` loop over the iterator; n is what next() gave
IterItem(n, items) ==
    IF n.item = None THEN items ELSE IterLoop(n.current, Append(items, n.item[1]))

IterLoop(current, items) == IterItem(PartitionIterator_next(current), items)

\* Partition::iter, run to its end: the items in the order they are yielded
iter(self) == IterLoop(PartitionIterator_new(self), <<>>)

(***************************************************************************)
(* ObjectId (src/src/execution_engine/placeholder_objects.rs): a u64 that  *)
(* packs a local id, an object type and a global id.                       *)
(***************************************************************************)
ObjectType_BITS == 4
ObjectType_BUFFER == 0
ObjectType_BUFFER_VIEW == 1
ObjectType_IMAGE == 2
ObjectType_IMAGE_VIEW == 3

U64_BITS == 64

LOCAL_ID_BITS == 16
LOCAL_ID_OFFSET == 0
LOCAL_ID_MAX == 2^LOCAL_ID_BITS - 1

TYPE_BITS == ObjectType_BITS
TYPE_OFFSET == LOCAL_ID_OFFSET + LOCAL_ID_BITS

GLOBAL_ID_BITS == U64_BITS - LOCAL_ID_BITS - TYPE_BITS
GLOBAL_ID_OFFSET == TYPE_OFFSET + TYPE_BITS

\* x << n on u64; no bit is shifted out while the result is below 2^31,
\* the largest integer the checker computes with
Shl(x, n) == x * 2^n

\* (x & (MAX << OFFSET)) >> OFFSET for a field of `bits` bits; the field that
\* ends at the top bit of the u64 has nothing above it to mask away
Field(x, offset, bits) ==
    IF offset + bits >= U64_BITS
    THEN x \div 2^offset
    ELSE (x \div 2^offset) % 2^bits

RECURSIVE BitOr(_, _)
\* a | b
BitOr(a, b) ==
    IF a = 0 THEN b
    ELSE IF b = 0 THEN a
    ELSE 2 * BitOr(a \div 2, b \div 2) + (IF a % 2 = 1 \/ b % 2 = 1 THEN 1 ELSE 0)

\* ObjectId::make_local
make_local(local_id) == Shl(local_id, LOCAL_ID_OFFSET)

\* ObjectId::make_type
make_type(object_type) == Shl(object_type, TYPE_OFFSET)

\* ObjectId::make_global
make_global(global_id) == Shl(global_id, GLOBAL_ID_OFFSET)

\* ObjectId::make
make(local_id, global_id, object_type) ==
    BitOr(BitOr(make_local(local_id), make_type(object_type)), make_global(global_id))

\* ObjectId::get_local_id
get_local_id(id) == Field(id, LOCAL_ID_OFFSET, LOCAL_ID_BITS)

\* ObjectId::get_type
get_type(id) == Field(id, TYPE_OFFSET, TYPE_BITS)

\* ObjectId::get_global_id
get_global_id(id) == Field(id, GLOBAL_ID_OFFSET, GLOBAL_ID_BITS)

\* ObjectId<BUFFER>::new, and the same for the other object types
BufferId_new(local_id, global_id) == make(local_id, global_id, ObjectType_BUFFER)
BufferViewId_new(local_id, global_id) == make(local_id, global_id, ObjectType_BUFFER_VIEW)
ImageId_new(local_id, global_id) == make(local_id, global_id, ObjectType_IMAGE)
ImageViewId_new(local_id, global_id) == make(local_id, global_id, ObjectType_IMAGE_VIEW)

(***************************************************************************)
(* PlaceholderObjectSet: [global_id, buffers, buffer_views, images,        *)
(* image_views].  A call that takes &mut self gives [self, ret]; a         *)
(* Result<Id, &str> is [ok, id], with id 0 in an Err.                      *)
(***************************************************************************)
Ok(id) == [ok |-> TRUE, id |-> id]
Err == [ok |-> FALSE, id |-> 0]

\* PlaceholderObjectSet::new in a process that has made no set before:
\* make_global_id gives the first value of NEXT_GLOBAL_ID
PlaceholderObjectSet_new ==
    [global_id |-> 1, buffers |-> <<>>, buffer_views |-> <<>>, images |-> <<>>,
     image_views |-> <<>>]

\* PlaceholderObjectSet::push_buffer
push_buffer(self, buffer) ==
    IF Len(self.buffers) > LOCAL_ID_MAX
    THEN [self |-> self, ret |-> Err]
    ELSE [self |-> [self EXCEPT !.buffers = Append(@, buffer)],
          ret  |-> Ok(BufferId_new(Len(self.buffers), self.global_id))]

\* PlaceholderObjectSet::push_buffer_view
push_buffer_view(self, buffer_view) ==
    IF Len(self.buffer_views) > LOCAL_ID_MAX
    THEN [self |-> self, ret |-> Err]
    ELSE [self |-> [self EXCEPT !.buffer_views = Append(@, buffer_view)],
          ret  |-> Ok(BufferViewId_new(Len(self.buffer_views), self.global_id))]

\* PlaceholderObjectSet::push_image
push_image(self, image) ==
    IF Len(self.images) > LOCAL_ID_MAX
    THEN [self |-> self, ret |-> Err]
    ELSE [self |-> [self EXCEPT !.images = Append(@, image)],
          ret  |-> Ok(ImageId_new(Len(self.images), self.global_id))]

\* PlaceholderObjectSet::push_image_view: the index is buffer_views.len()
push_image_view(self, image_view) ==
    IF Len(self.buffer_views) > LOCAL_ID_MAX
    THEN [self |-> self, ret |-> Err]
    ELSE [self |-> [self EXCEPT !.image_views = Append(@, image_view)],
          ret  |-> Ok(ImageViewId_new(Len(self.buffer_views), self.global_id))]

\* BufferInfo::Placeholder(), ImageInfo::Placeholder()
Placeholder == [kind |-> "Placeholder"]

\* BufferViewInfo::External(info), ImageViewInfo::External(info)
External(info) == [kind |-> "External", info |-> info]

\* BufferViewInfo::Internal(info), ImageViewInfo::Internal(info)
Internal(info) == [kind |-> "Internal", info |-> info]

\* PlaceholderObjectSet::define_placeholder_buffer
define_placeholder_buffer(self) == push_buffer(self, Placeholder)

\* PlaceholderObjectSet::define_external_buffer_view
define_external_buffer_view(self, info) ==
    IF get_global_id(info.buffer) # self.global_id
    THEN [self |-> self, ret |-> Err]
    ELSE push_buffer_view(self, External(info))

\* PlaceholderObjectSet::define_internal_buffer_view
define_internal_buffer_view(self, info) ==
    IF get_global_id(info.buffer) # self.global_id
    THEN [self |-> self, ret |-> Err]
    ELSE push_buffer_view(self, Internal(info))

\* PlaceholderObjectSet::define_placeholder_image
define_placeholder_image(self) == push_image(self, Placeholder)

\* PlaceholderObjectSet::define_external_image_view
define_external_image_view(self, info) ==
    IF get_global_id(info.image) # self.global_id
    THEN [self |-> self, ret |-> Err]
    ELSE push_image_view(self, External(info))

\* PlaceholderObjectSet::define_internal_image_view
define_internal_image_view(self, info) ==
    IF get_global_id(info.image) # self.global_id
    THEN [self |-> self, ret |-> Err]
    ELSE push_image_view(self, Internal(info))

\* PlaceholderObjectSet::get_image_view_info: [panic, ret]
get_image_view_info(self, id) ==
    IF get_global_id(id) # self.global_id
    THEN [panic |-> TRUE, ret |-> None]
    ELSE [panic |-> FALSE,
          ret   |-> IF get_local_id(id) < Len(self.image_views)
                    THEN Some(self.image_views[get_local_id(id) + 1])
                    ELSE None]

(***************************************************************************)
(* Inputs                                                                  *)
(***************************************************************************)
\* the values of the const generic DIM the model instantiates
Dims == {1, 2, 3}

\* DIM of the HistoryTracker
TrackerDim == 1

Coords(d) == IF d = 1 THEN 0..MaxCoord1 ELSE 0..MaxCoord

\* every Region of d dimensions with start <= end, zero-volume regions included
Regions(d) ==
    {r \in [start : [1..d -> Coords(d)], end : [1..d -> Coords(d)]] :
        \A i \in 1..d : r.start[i] <= r.end[i]}

\* the regions that have volume
SolidRegions(d) == {r \in Regions(d) : \A i \in 1..d : r.start[i] < r.end[i]}

PairwiseDisjoint(v) ==
    \A i, j \in 1..Len(v) : i < j => ~intersects(v[i], v[j])

RECURSIVE DisjointLists(_, _)
\* the lists of at most n pairwise-disjoint regions of S
DisjointLists(S, n) ==
    IF n = 0 THEN {<<>>}
    ELSE LET shorter == DisjointLists(S, n - 1)
         IN  shorter \cup
             {Append(v, r) : <<v, r>> \in
                 {p \in shorter \X S : \A i \in 1..Len(p[1]) : ~intersects(p[1][i], p[2])}}

(***************************************************************************)
(* Geometry: one function of Region applied to one choice of arguments.    *)
(***************************************************************************)
\* the calls self.cut(tool, ..): every pair of regions of one and two
\* dimensions, and the pairs of three dimensions in which one region has volume
CutCalls ==
    UNION {{c \in [fn : {"cut"}, self : Regions(d), tool : Regions(d)] :
               d = 3 => (c.self \in SolidRegions(d) \/ c.tool \in SolidRegions(d))} :
           d \in Dims}

CutRegionsCalls ==
    UNION {[fn : {"cut_regions"}, self : SolidRegions(d),
            regions : DisjointLists(SolidRegions(d), MaxRegions)] : d \in {1, 2}}

NoCall == [fn |-> "none", regions |-> <<>>, panic |-> FALSE, left |-> <<>>,
           nodes |-> 0, ids |-> <<>>]

\* the calls on a pair of regions or extents of one and two dimensions,
\* zero-volume ones included
PairCalls ==
    UNION {[fn : {"intersects", "intersection", "get_overlap"},
            self : Regions(d), other : Regions(d)] : d \in {1, 2}}

InitRegion ==
    /\ fnCall \in CutCalls \cup CutRegionsCalls \cup PairCalls
    /\ fnRet = None
    /\ chain = <<>>
    /\ call = NoCall
    /\ log = <<>>
    /\ first = <<>>
    /\ newest = 0
    /\ set = PlaceholderObjectSet_new
    /\ issued = <<>>

\* self.cut(tool, splits), once on an empty `splits` and once on a `splits`
\* that already holds an entry
ApplyCut ==
    /\ fnCall.fn = "cut"
    /\ fnRet = None
    /\ \E splits \in {<<>>, <<fnCall.tool>>} :
           fnRet' = Some([before |-> splits, out |-> cut(fnCall.self, fnCall.tool, splits)])
    /\ UNCHANGED <<chain, call, log, fnCall, first, newest, set, issued>>

\* self.cut_regions(regions, intersections) with an empty `intersections`
ApplyCutRegions ==
    /\ fnCall.fn = "cut_regions"
    /\ fnRet = None
    /\ fnRet' = Some([out |-> cut_regions(fnCall.self, fnCall.regions, <<>>)])
    /\ UNCHANGED <<chain, call, log, fnCall, first, newest, set, issued>>

\* self.intersects(other)
ApplyIntersects ==
    /\ fnCall.fn = "intersects"
    /\ fnRet = None
    /\ fnRet' = Some([out |-> intersects(fnCall.self, fnCall.other)])
    /\ UNCHANGED <<chain, call, log, fnCall, first, newest, set, issued>>

\* self.intersection(other), and the call with the two regions exchanged
ApplyIntersection ==
    /\ fnCall.fn = "intersection"
    /\ fnRet = None
    /\ fnRet' = Some([out     |-> intersection(fnCall.self, fnCall.other),
                      swapped |-> intersection(fnCall.other, fnCall.self)])
    /\ UNCHANGED <<chain, call, log, fnCall, first, newest, set, issued>>

\* self.get_overlap(other), and the call with the two extents exchanged
ApplyGetOverlap ==
    /\ fnCall.fn = "get_overlap"
    /\ fnRet = None
    /\ fnRet' = Some([out     |-> get_overlap(fnCall.self, fnCall.other),
                      swapped |-> get_overlap(fnCall.other, fnCall.self)])
    /\ UNCHANGED <<chain, call, log, fnCall, first, newest, set, issued>>

NextRegion ==
    \/ ApplyCut
    \/ ApplyCutRegions
    \/ ApplyIntersects
    \/ ApplyIntersection
    \/ ApplyGetOverlap

SpecRegion == InitRegion /\ [][NextRegion]_vars

(***************************************************************************)
(* The tracker: one HistoryTracker, created empty, and the calls on it.    *)
(***************************************************************************)
\* the region lists a caller passes: pairwise-disjoint regions with volume,
\* and the empty list
TrackerLists == DisjointLists(SolidRegions(TrackerDim), MaxRegions)

\* the TransitionSystem at the start of a call: nothing logged, and the ids
\* of the values the chain holds in use
Recorder == [log |-> <<>>, ids |-> {chain[k].value.id : k \in 1..Len(chain)}]

\* the ids of the boxes of a chain, head first
Ids(nodes) == [k \in 1..Len(nodes) |-> nodes[k].value.id]

\* the chain with its boxes renamed by their place
Renamed(nodes) == [k \in 1..Len(nodes) |-> [nodes[k] EXCEPT !.value.id = k]]

\* what a call leaves behind: its arguments, whether it panicked, the caller's
\* `regions` after it (left), the number of nodes the chain had before it
\* (nodes) and the ids its nodes had during the call (ids)
Outcome(op, regions, r) ==
    [fn |-> op, regions |-> regions, panic |-> r.panic, left |-> r.regions,
     nodes |-> Len(chain), ids |-> Ids(r.chain)]

\* the number of nodes of a chain whose box did not exist in a chain of n nodes
NewNodes(nodes, n) == Cardinality({k \in 1..Len(nodes) : Ids(nodes)[k] > n})

Init ==
    /\ chain = <<>>
    /\ call = NoCall
    /\ log = <<>>
    /\ fnCall = NoCall
    /\ fnRet = None
    /\ first = <<>>
    /\ newest = 0
    /\ set = PlaceholderObjectSet_new
    /\ issued = <<>>

\* a call of update_regions_vec by a caller that holds no finished call
UpdateRegionsVec ==
    /\ call = NoCall
    /\ \E regions \in TrackerLists :
        \E r \in {update_regions_vec(chain, Recorder, regions)} :
            /\ chain' = Renamed(r.chain)
            /\ call' = Outcome("update", regions, r)
            /\ log' = r.ts.log
    /\ UNCHANGED <<fnCall, fnRet, first, newest, set, issued>>

\* a call of override_regions_vec by a caller that holds no finished call
OverrideRegionsVec ==
    /\ call = NoCall
    /\ \E regions \in TrackerLists :
        \E r \in {override_regions_vec(chain, Recorder, regions)} :
            /\ chain' = Renamed(r.chain)
            /\ call' = Outcome("override", regions, r)
            /\ log' = r.ts.log
            /\ newest' = IF r.panic THEN newest ELSE NewNodes(r.chain, Len(chain))
    /\ UNCHANGED <<fnCall, fnRet, first, set, issued>>

\* the caller drops the region list and the TransitionSystem of the finished
\* call; the tracker is as the call left it
Forget ==
    /\ call # NoCall
    /\ call' = NoCall
    /\ log' = <<>>
    /\ UNCHANGED <<chain, fnCall, fnRet, first, newest, set, issued>>

Next == UpdateRegionsVec \/ OverrideRegionsVec \/ Forget

Spec == Init /\ [][Next]_vars

(***************************************************************************)
(* The tracker under override calls whose lists may repeat or overlap      *)
(* regions.  T is a signed integer here (the tests use i32), so a          *)
(* subtraction below zero shows as a negative active_volume; with an       *)
(* unsigned T the same subtraction panics in a debug build and wraps in a  *)
(* release build.  No call is made on a tracker that holds a negative      *)
(* active_volume.  Repeated regions leave nodes behind that no later call  *)
(* unlinks, so chains grow without limit; calls are made on chains of      *)
(* fewer than MaxNodes nodes.                                              *)
(***************************************************************************)
RECURSIVE Lists(_, _)
\* the lists of at most n regions of S
Lists(S, n) ==
    IF n = 0 THEN {<<>>}
    ELSE Lists(S, n - 1) \cup {Append(v, r) : <<v, r>> \in Lists(S, n - 1) \X S}

\* the non-empty lists of regions with volume, overlapping ones included
OverlappingLists == Lists(SolidRegions(TrackerDim), MaxRegions) \ {<<>>}

\* a call of override_regions_vec with any non-empty list
OverrideAny ==
    /\ call = NoCall
    /\ Len(chain) < MaxNodes
    /\ \A k \in 1..Len(chain) : chain[k].active_volume >= 0
    /\ \E regions \in OverlappingLists :
        \E r \in {override_regions_vec(chain, Recorder, regions)} :
            /\ chain' = Renamed(r.chain)
            /\ call' = Outcome("override", regions, r)
            /\ log' = r.ts.log
            /\ newest' = NewNodes(r.chain, Len(chain))
    /\ UNCHANGED <<fnCall, fnRet, first, set, issued>>

NextOverlap == OverrideAny \/ Forget

SpecOverlap == Init /\ [][NextOverlap]_vars

(***************************************************************************)
(* The partition: one Partition, created empty, and the calls on it.       *)
(***************************************************************************)
\* DIM of the Partition
PartitionDim == 2

\* the extents a caller passes: the extents with volume
Extents == SolidRegions(PartitionDim)

Values == 0..MaxValue

\* the closures a caller passes
TransitionFunctions == [kind : {"Ignore", "Update", "Clear", "ClearValue"}, value : Values]

InitPartition ==
    /\ first = <<>>
    /\ newest = 0
    /\ set = PlaceholderObjectSet_new
    /\ issued = <<>>
    /\ call = NoCall
    /\ log = <<>>
    /\ chain = <<>>
    /\ fnCall = NoCall
    /\ fnRet = None

\* a call of Partition::transition by a caller that holds no finished call
Transition ==
    /\ call = NoCall
    /\ \E extent \in Extents, f \in TransitionFunctions :
        \E r \in {Partition_transition(first, extent, f, <<>>)} :
            /\ first' = r.first
            /\ log' = r.log
            /\ call' = [fn |-> "transition", extent |-> extent, f |-> f]
    /\ UNCHANGED <<chain, fnCall, fnRet, newest, set, issued>>

\* a `for` loop over Partition::iter by a caller that holds no finished call
Iter ==
    /\ call = NoCall
    /\ call' = [fn |-> "iter", items |-> iter(first)]
    /\ UNCHANGED <<chain, log, fnCall, fnRet, first, newest, set, issued>>

NextPartition == Transition \/ Iter \/ Forget

SpecPartition == InitPartition /\ [][NextPartition]_vars

(***************************************************************************)
(* The object set: one PlaceholderObjectSet and the define calls on it.    *)
(***************************************************************************)
Ranges == 0..MaxRange

\* the parent ids a caller passes: the first object of this set, and the
\* first object of a set made after it
BufferIds == {BufferId_new(0, set.global_id), BufferId_new(0, set.global_id + 1)}
ImageIds == {ImageId_new(0, set.global_id), ImageId_new(0, set.global_id + 1)}

\* ExternalBufferViewInfo and InternalBufferViewInfo, by their buffer and range
BufferViewInfos == [buffer : BufferIds, range : Ranges]

\* ExternalImageViewInfo and InternalImageViewInfo, by their image and range
ImageViewInfos == [image : ImageIds, range : Ranges]

InitObjects ==
    /\ set = PlaceholderObjectSet_new
    /\ issued = <<>>
    /\ chain = <<>>
    /\ call = NoCall
    /\ log = <<>>
    /\ fnCall = NoCall
    /\ fnRet = None
    /\ first = <<>>
    /\ newest = 0

\* `issued` after a define call for an image view that gave r
Issued(r, image_view) ==
    IF r.ret.ok THEN Append(issued, [id |-> r.ret.id, info |-> image_view]) ELSE issued

DefinePlaceholderBuffer ==
    /\ Len(set.buffers) < MaxObjects
    /\ set' = define_placeholder_buffer(set).self
    /\ UNCHANGED <<chain, call, log, fnCall, fnRet, first, newest, issued>>

DefineExternalBufferView ==
    /\ Len(set.buffer_views) < MaxObjects
    /\ \E info \in BufferViewInfos : set' = define_external_buffer_view(set, info).self
    /\ UNCHANGED <<chain, call, log, fnCall, fnRet, first, newest, issued>>

DefineInternalBufferView ==
    /\ Len(set.buffer_views) < MaxObjects
    /\ \E info \in BufferViewInfos : set' = define_internal_buffer_view(set, info).self
    /\ UNCHANGED <<chain, call, log, fnCall, fnRet, first, newest, issued>>

DefinePlaceholderImage ==
    /\ Len(set.images) < MaxObjects
    /\ set' = define_placeholder_image(set).self
    /\ UNCHANGED <<chain, call, log, fnCall, fnRet, first, newest, issued>>

DefineExternalImageView ==
    /\ Len(set.image_views) < MaxObjects
    /\ \E info \in ImageViewInfos :
        \E r \in {define_external_image_view(set, info)} :
            /\ set' = r.self
            /\ issued' = Issued(r, External(info))
    /\ UNCHANGED <<chain, call, log, fnCall, fnRet, first, newest>>

DefineInternalImageView ==
    /\ Len(set.image_views) < MaxObjects
    /\ \E info \in ImageViewInfos :
        \E r \in {define_internal_image_view(set, info)} :
            /\ set' = r.self
            /\ issued' = Issued(r, Internal(info))
    /\ UNCHANGED <<chain, call, log, fnCall, fnRet, first, newest>>

NextObjects ==
    \/ DefinePlaceholderBuffer
    \/ DefineExternalBufferView
    \/ DefineInternalBufferView
    \/ DefinePlaceholderImage
    \/ DefineExternalImageView
    \/ DefineInternalImageView

SpecObjects == InitObjects /\ [][NextObjects]_vars

(***************************************************************************)
(* Points.  Coordinates are integers, so a region is the union of the unit *)
(* cells [p, p + 1) it contains; Cells(r) names each by its corner p.      *)
(***************************************************************************)
Cells(r) ==
    {p \in [1..Dim(r) -> Coords(Dim(r))] : \A i \in 1..Dim(r) : r.start[i] <= p[i] /\ p[i] < r.end[i]}

\* the cells covered by the regions of a list
Covered(v) == UNION {Cells(v[k]) : k \in 1..Len(v)}

\* the cells covered by the `region` fields of a chain
ChainCovered(nodes) == UNION {Cells(nodes[k].region) : k \in 1..Len(nodes)}

RECURSIVE SumVolume(_, _)
SumVolume(v, k) == IF k > Len(v) THEN 0 ELSE volume(v[k]) + SumVolume(v, k + 1)

\* the sum of the volumes of the regions of a list
TotalVolume(v) == SumVolume(v, 1)

\* a finished call of override_regions_vec / update_regions_vec that did not panic
Overrode(c) == c.fn = "override" /\ ~c.panic
Updated(c) == c.fn = "update" /\ ~c.panic

\* the places in chain' of the nodes the last call created, and of those it kept
Created == {k \in 1..Len(chain) : call.ids[k] > call.nodes}
Kept == {k \in 1..Len(chain) : call.ids[k] <= call.nodes}

\* the callbacks of one kind in the log, in order
Callbacks(l, cb) == SelectSeq(l, LAMBDA e : e.cb = cb)

(***************************************************************************)
(* C1  HistoryTracker coverage.  Every override_regions_vec call leaves    *)
(* the chain covering exactly what it covered before plus the regions      *)
(* passed to the call; from the empty tracker this is the claim that the   *)
(* chain covers the union of all regions ever passed to override and that  *)
(* no overridden point ever becomes uncovered.                             *)
(***************************************************************************)
C1_Coverage ==
    [][Overrode(call') =>
          ChainCovered(chain') = ChainCovered(chain) \cup Covered(call'.regions)]_vars

C3_OverrideFootprint ==
    Overrode(call) =>
        /\ Covered(call.regions) \subseteq UNION {Cells(chain[k].region) : k \in Created}
        /\ \A k \in Created :
               \E e \in 1..Len(log) :
                   /\ log[e].cb = "on_create"
                   /\ log[e].value.id = call.ids[k]
                   /\ log[e].value_region = chain[k].region
        /\ \A k \in Kept : ~(Cells(chain[k].region) \subseteq Covered(call.regions))

\* an override that kept one older node and removed another, which lay inside
\* the footprint of the call
C3_Witness ==
    /\ Overrode(call)
    /\ Kept # {}
    /\ \E e \in 1..Len(log) :
           /\ log[e].cb = "on_override"
           /\ Cells(log[e].value_region) \subseteq Covered(call.regions)
           /\ \A k \in 1..Len(chain) : call.ids[k] # log[e].value.id

(***************************************************************************)
(* C4  Removal iff zero active volume.  For every override_regions_vec     *)
(* call on a non-empty tracker, a node of the chain before the call is     *)
(* absent after the call if and only if its active_volume after the call's *)
(* subtraction is zero.  What the call subtracts from node p is the volume *)
(* of the regions on_override reports for it.                              *)
(***************************************************************************)
Subtracted(l, p) ==
    LET e == SelectSeq(l, LAMBDA x : x.cb = "on_override" /\ x.value.id = p)
    IN  IF e = <<>> THEN 0 ELSE TotalVolume(e[1].affected_regions)

C4_RemovedIffZero ==
    [][(Overrode(call') /\ chain # <<>>) =>
          \A p \in 1..Len(chain) :
              (\A k \in 1..Len(chain') : call'.ids[k] # p)
                  <=> (chain[p].active_volume - Subtracted(log', p) = 0)]_vars

(***************************************************************************)
(* C5  update_regions_vec leaves the chain unchanged: the same nodes in    *)
(* the same order, each with the region and the active_volume it had; only *)
(* the stored values may change.                                           *)
(***************************************************************************)
C5_UpdateFrame ==
    [][call'.fn = "update" =>
          /\ Len(chain') = Len(chain)
          /\ call'.ids = [k \in 1..Len(chain) |-> k]
          /\ \A k \in 1..Len(chain) :
                 /\ chain'[k].region = chain[k].region
                 /\ chain'[k].active_volume = chain[k].active_volume]_vars

\* an update of a chain of several nodes that changed a stored value
C5_Witness ==
    /\ Updated(call)
    /\ Len(chain) >= 2
    /\ \E e \in 1..Len(log) :
           /\ log[e].cb = "on_update"
           /\ ~log[e].value.touched
           /\ chain[log[e].value.id].value.touched

(***************************************************************************)
(* C6  A call of update_regions_vec or override_regions_vec with an empty  *)
(* region list panics, makes no TransitionSystem callback and leaves the   *)
(* tracker as it was.                                                      *)
(***************************************************************************)
C6_EmptyListPanics ==
    [][(call'.fn \in {"update", "override"} /\ call'.regions = <<>>) =>
          /\ call'.panic
          /\ log' = <<>>
          /\ chain' = chain]_vars

\* override_regions_vec has panicked on a tracker that holds nodes
C6_Witness ==
    /\ call.panic
    /\ call.fn = "override"
    /\ call.regions = <<>>
    /\ Len(chain) >= 2

(***************************************************************************)
(* C7  Idempotent re-query.  As claimed: when update_regions_vec([R]) is   *)
(* called with R contained in the region of a node of the chain, on_update *)
(* is invoked exactly once, and on that node.  The claim is read in its    *)
(* weaker sense: R is contained in the region of that node and of no other *)
(* node.  (An update keeps every node at its place, so a node's id in the  *)
(* log is its place in the chain.)                                         *)
(***************************************************************************)
Contains(outer, inner) == Cells(inner) \subseteq Cells(outer)

OneUpdateOn(k) ==
    /\ Len(Callbacks(log, "on_update")) = 1
    /\ Callbacks(log, "on_update")[1].value.id = k
    /\ Callbacks(log, "on_update")[1].value_region = chain[k].region

LeftFor(k) == Covered(call.regions) \ UNION {Cells(chain[j].region) : j \in 1..(k - 1)}

C8_UpdateCallbacks ==
    Updated(call) =>
        LET ups == Callbacks(log, "on_update")
        IN  /\ ups = log
            /\ \A e, f \in 1..Len(ups) : e < f => ups[e].value.id < ups[f].value.id
            /\ \A k \in 1..Len(chain) :
                   (\E e \in 1..Len(ups) : ups[e].value.id = k)
                       <=> (LeftFor(k) \cap Cells(chain[k].region) # {})
            /\ \A e \in 1..Len(ups) :
                   /\ ups[e].value.id \in 1..Len(chain)
                   /\ ups[e].value_region = chain[ups[e].value.id].region
                   /\ PairwiseDisjoint(ups[e].affected_regions)
                   /\ Covered(ups[e].affected_regions)
                          = LeftFor(ups[e].value.id) \cap Cells(chain[ups[e].value.id].region)
            /\ (chain = <<>> => log = <<>>)

\* an update in which a node received only the part of the input that the
\* nodes before it had left, and a later node received nothing
C8_Witness ==
    /\ Updated(call)
    /\ Len(log) >= 2
    /\ \E k \in 2..Len(chain) :
           /\ \E e \in 1..Len(log) :
                  /\ log[e].value.id = k
                  /\ Covered(log[e].affected_regions)
                         # Covered(call.regions) \cap Cells(chain[k].region)
           /\ \E m \in 1..Len(chain) : \A e \in 1..Len(log) : log[e].value.id # m

(***************************************************************************)
(* C9  cut_regions exactness.  For a tool with volume and pairwise-        *)
(* disjoint candidates with volume: afterwards the candidates are pairwise *)
(* disjoint, none intersects the tool, and they cover the originally       *)
(* covered points outside the tool; the intersections are pairwise         *)
(* disjoint and cover the originally covered points inside the tool; the   *)
(* returned volume is the sum of the volumes of the intersections.         *)
(***************************************************************************)
C9_CutRegionsExact ==
    (fnCall.fn = "cut_regions" /\ fnRet # None) =>
        LET out  == fnRet[1].out
            tool == fnCall.self
        IN  /\ PairwiseDisjoint(out.regions)
            /\ \A k \in 1..Len(out.regions) : ~intersects(out.regions[k], tool)
            /\ Covered(out.regions) = Covered(fnCall.regions) \ Cells(tool)
            /\ PairwiseDisjoint(out.intersections)
            /\ Covered(out.intersections) = Covered(fnCall.regions) \cap Cells(tool)
            /\ out.volume = TotalVolume(out.intersections)

\* a cut_regions of two candidates that both intersect the tool: the first lies
\* inside it, so the second is moved to its place, and is left a slice
C9_Witness ==
    /\ fnCall.fn = "cut_regions"
    /\ fnRet # None
    /\ Len(fnCall.regions) = 2
    /\ Contains(fnCall.self, fnCall.regions[1])
    /\ Len(fnRet[1].out.intersections) = 2
    /\ Len(fnRet[1].out.regions) >= 1

(***************************************************************************)
(* C10  cut volume conservation.  Whenever A.cut(B, splits) returns Some,  *)
(* the volume of A before the call is the volume of A after it plus the    *)
(* volumes of the splits the call appended (1, 2 and 3 dimensions).        *)
(***************************************************************************)
\* the splits a call of cut appended
Appended(r) == SubSeq(r.out.splits, Len(r.before) + 1, Len(r.out.splits))

C10_CutConservesVolume ==
    (fnCall.fn = "cut" /\ fnRet # None /\ fnRet[1].out.ret # None) =>
        volume(fnCall.self) = volume(fnRet[1].out.self) + TotalVolume(Appended(fnRet[1]))

\* a cut in three dimensions that sliced self on both sides of one dimension
\* and on one side of another
C10_Witness ==
    /\ fnCall.fn = "cut"
    /\ fnRet # None
    /\ Dim(fnCall.self) = 3
    /\ fnRet[1].out.ret = Some(3)
    /\ fnRet[1].before # <<>>
    /\ volume(fnRet[1].out.self) > 0
    /\ \E a \in 1..3 : fnCall.self.start[a] < fnCall.tool.start[a]
                        /\ fnCall.tool.end[a] < fnCall.self.end[a]

(***************************************************************************)
(* C11  cut without intersection mutates nothing.  Whenever                *)
(* self.cut(tool, splits) returns None, self is equal to its value before  *)
(* the call and `splits` has the contents and the length it had before     *)
(* the call (1, 2 and 3 dimensions).                                       *)
(***************************************************************************)
C11_CutNoneNoMutation ==
    (fnCall.fn = "cut" /\ fnRet # None /\ fnRet[1].out.ret = None) =>
        /\ fnRet[1].out.self = fnCall.self
        /\ fnRet[1].out.splits = fnRet[1].before

\* the part of C11 about `splits` alone
C11_SplitsRestored ==
    (fnCall.fn = "cut" /\ fnRet # None /\ fnRet[1].out.ret = None) =>
        fnRet[1].out.splits = fnRet[1].before

(***************************************************************************)
(* C12  cut result.  For regions self and tool with volume,                *)
(* self.cut(tool, splits) returns Some if and only if                      *)
(* self.intersection(tool) is Some, and then self after the call is        *)
(* self.intersection(tool) computed before the call.                       *)
(***************************************************************************)
Solid(r) == \A i \in 1..Dim(r) : r.start[i] < r.end[i]

C12_CutIsIntersection ==
    (/\ fnCall.fn = "cut" /\ fnRet # None
     /\ Solid(fnCall.self) /\ Solid(fnCall.tool)) =>
        /\ (fnRet[1].out.ret # None) <=> (intersection(fnCall.self, fnCall.tool) # None)
        /\ (fnRet[1].out.ret # None) =>
               Some(fnRet[1].out.self) = intersection(fnCall.self, fnCall.tool)

\* a cut in three dimensions of a self that reaches beyond the end of the tool
\* in one dimension and starts before the tool in another
C12_Witness ==
    /\ fnCall.fn = "cut" /\ fnRet # None
    /\ Dim(fnCall.self) = 3
    /\ Solid(fnCall.self) /\ Solid(fnCall.tool)
    /\ fnRet[1].out.ret # None
    /\ \E a, b \in 1..3 :
           /\ a # b
           /\ fnCall.self.end[a] > fnCall.tool.end[a]
           /\ fnCall.self.start[b] < fnCall.tool.start[b]
    /\ fnRet[1].out.self # fnCall.self

(***************************************************************************)
(* C13  cut of a contained region.  For regions with volume and self       *)
(* contained in tool in every dimension, self.cut(tool, splits) returns    *)
(* Some(0), leaves self unchanged and appends nothing to `splits`.         *)
(***************************************************************************)
C13_CutContained ==
    (/\ fnCall.fn = "cut" /\ fnRet # None
     /\ Solid(fnCall.self) /\ Solid(fnCall.tool)
     /\ \A i \in 1..Dim(fnCall.self) :
            /\ fnCall.tool.start[i] <= fnCall.self.start[i]
            /\ fnCall.self.end[i] <= fnCall.tool.end[i]) =>
        /\ fnRet[1].out.ret = Some(0)
        /\ fnRet[1].out.self = fnCall.self
        /\ fnRet[1].out.splits = fnRet[1].before

\* a self that shares a face with the tool that contains it, cut with a
\* `splits` that already holds an entry
C13_Witness ==
    /\ fnCall.fn = "cut" /\ fnRet # None
    /\ Dim(fnCall.self) >= 2
    /\ Solid(fnCall.self) /\ Solid(fnCall.tool)
    /\ fnCall.self # fnCall.tool
    /\ \A i \in 1..Dim(fnCall.self) :
            /\ fnCall.tool.start[i] <= fnCall.self.start[i]
            /\ fnCall.self.end[i] <= fnCall.tool.end[i]
    /\ \E i \in 1..Dim(fnCall.self) : fnCall.tool.start[i] = fnCall.self.start[i]
    /\ fnRet[1].before # <<>>
    /\ fnRet[1].out.ret = Some(0)

(***************************************************************************)
(* C14  intersects is strict and agrees with intersection.  For regions a  *)
(* and b with start <= end in every dimension, zero-volume regions         *)
(* included, a.intersects(b) is true if and only if a and b have a         *)
(* positive overlap in every dimension, that is, if and only if            *)
(* a.intersection(b) is Some.                                              *)
(***************************************************************************)
\* a and b overlap over a positive length in dimension i
PositiveOverlap(a, b, i) ==
    \E lo, hi \in Coords(Dim(a)) :
        /\ lo < hi
        /\ a.start[i] <= lo /\ hi <= a.end[i]
        /\ b.start[i] <= lo /\ hi <= b.end[i]

C14_IntersectsAgrees ==
    (fnCall.fn = "intersects" /\ fnRet # None) =>
        /\ fnRet[1].out <=> \A i \in 1..Dim(fnCall.self) :
                                PositiveOverlap(fnCall.self, fnCall.other, i)
        /\ fnRet[1].out <=> (intersection(fnCall.self, fnCall.other) # None)

\* the same for regions with volume
C14_IntersectsAgreesSolid ==
    (fnCall.fn = "intersects" /\ fnRet # None /\ Solid(fnCall.self) /\ Solid(fnCall.other)) =>
        /\ fnRet[1].out <=> \A i \in 1..Dim(fnCall.self) :
                                PositiveOverlap(fnCall.self, fnCall.other, i)
        /\ fnRet[1].out <=> (intersection(fnCall.self, fnCall.other) # None)

(***************************************************************************)
(* C15  intersection value.  For regions a and b, Region::intersection and *)
(* Extent::get_overlap return Some(r) with r.start[i] the greater of the   *)
(* two starts and r.end[i] the lesser of the two ends when that end is     *)
(* greater than that start in every dimension, and None when one           *)
(* dimension has end <= start: regions that only touch give None.          *)
(***************************************************************************)
\* x is the greater of a and b
IsMax(x, a, b) == x >= a /\ x >= b /\ x \in {a, b}
\* x is the lesser of a and b
IsMin(x, a, b) == x <= a /\ x <= b /\ x \in {a, b}

\* in every dimension the lesser end is beyond the greater start
EndsBeyondStarts(a, b) ==
    \A i \in 1..Dim(a) : \A lo, hi \in Coords(Dim(a)) :
        (IsMax(lo, a.start[i], b.start[i]) /\ IsMin(hi, a.end[i], b.end[i])) => hi > lo

C15_IntersectionValue ==
    (fnCall.fn \in {"intersection", "get_overlap"} /\ fnRet # None) =>
        IF EndsBeyondStarts(fnCall.self, fnCall.other)
        THEN /\ fnRet[1].out # None
             /\ \A i \in 1..Dim(fnCall.self) :
                    /\ IsMax(fnRet[1].out[1].start[i], fnCall.self.start[i], fnCall.other.start[i])
                    /\ IsMin(fnRet[1].out[1].end[i], fnCall.self.end[i], fnCall.other.end[i])
             /\ Dim(fnRet[1].out[1]) = Dim(fnCall.self)
             /\ Len(fnRet[1].out[1].end) = Dim(fnCall.self)
        ELSE fnRet[1].out = None

\* two extents with volume that overlap in the first dimension and touch on a
\* boundary in the second
C15_Witness ==
    /\ fnCall.fn = "get_overlap" /\ fnRet # None
    /\ Dim(fnCall.self) = 2
    /\ Solid(fnCall.self) /\ Solid(fnCall.other)
    /\ fnCall.self.start[1] < fnCall.other.end[1]
    /\ fnCall.other.start[1] < fnCall.self.end[1]
    /\ fnCall.self.end[2] = fnCall.other.start[2]
    /\ fnRet[1].out = None

(***************************************************************************)
(* C16  intersection symmetry.  For regions A and B, A.intersection(B)     *)
(* equals B.intersection(A), and for extents a and b, a.get_overlap(b)     *)
(* equals b.get_overlap(a).                                                *)
(***************************************************************************)
C16_IntersectionSymmetric ==
    (fnCall.fn \in {"intersection", "get_overlap"} /\ fnRet # None) =>
        fnRet[1].out = fnRet[1].swapped

\* two regions that overlap in two dimensions, neither inside the other
C16_Witness ==
    /\ fnCall.fn = "intersection" /\ fnRet # None
    /\ Dim(fnCall.self) = 2
    /\ fnRet[1].out # None
    /\ fnRet[1].out[1] # fnCall.self
    /\ fnRet[1].out[1] # fnCall.other

(***************************************************************************)
(* C17  Partition insertion.  For a partition, empty or not, and an extent *)
(* that overlaps no stored entry, Partition::transition calls the          *)
(* transition function exactly once, with that extent and None as the      *)
(* value, and when the function returns Update(v) the partition afterwards *)
(* holds an entry with that extent and value v in addition to all earlier  *)
(* entries.                                                                *)
(***************************************************************************)
\* the number of entries of the chain v that equal e
EntryCount(v, e) == Cardinality({k \in 1..Len(v) : v[k] = e})

\* the chain `after` holds the entries of `before` and the entry e besides
HoldsBesides(after, before, e) ==
    /\ Len(after) = Len(before) + 1
    /\ \A k \in 1..Len(after) :
           EntryCount(after, after[k]) =
               EntryCount(before, after[k]) + (IF after[k] = e THEN 1 ELSE 0)

\* the step is a call of transition with an extent that overlaps no entry
DisjointTransition ==
    /\ call = NoCall
    /\ call'.fn = "transition"
    /\ \A k \in 1..Len(first) : Cells(first[k].extent) \cap Cells(call'.extent) = {}

\* what C17 says of such a step
InsertedOnce ==
    /\ log' = <<[extent |-> call'.extent, value |-> None]>>
    /\ call'.f.kind = "Update" =>
           HoldsBesides(first', first, Entry_new(call'.extent, call'.f.value))

C17_Insertion == [][DisjointTransition => InsertedOnce]_vars

\* the same for the empty partition alone
C17_InsertionEmpty == [][(DisjointTransition /\ first = <<>>) => InsertedOnce]_vars

(***************************************************************************)
(* C18  Partition iteration.  In every partition state iter() yields the   *)
(* (extent, value) pair of every entry stored in the chain exactly once:   *)
(* the number of items equals the number of stored entries, and a          *)
(* non-empty partition yields at least one item.                           *)
(***************************************************************************)
\* the (extent, value) pairs of the entries of a chain, head first
Pairs(v) == [k \in 1..Len(v) |-> <<v[k].extent, v[k].value>>]

C18_IterYieldsAll ==
    call.fn = "iter" =>
        /\ Len(call.items) = Len(first)
        /\ \A k \in 1..Len(first) :
               EntryCount(call.items, Pairs(first)[k]) = EntryCount(Pairs(first), Pairs(first)[k])
        /\ first # <<>> => Len(call.items) >= 1

\* what holds instead: the pairs of the entries after the first, in order
C18_IterSkipsFirst ==
    call.fn = "iter" =>
        call.items = IF first = <<>> THEN <<>> ELSE Tail(Pairs(first))

(***************************************************************************)
(* C19  Partition clear.  In every reachable partition state and for every *)
(* extent E, after Partition::transition(E, f) with f always returning     *)
(* Clear no stored entry overlaps E; when E contains every stored entry    *)
(* the partition is empty afterwards.                                      *)
(***************************************************************************)
\* the step is a call of transition with the closure that always gives Clear
ClearTransition ==
    /\ call = NoCall
    /\ call'.fn = "transition"
    /\ call'.f.kind = "Clear"

C19_Clear ==
    [][ClearTransition =>
           /\ \A k \in 1..Len(first') : Cells(first'[k].extent) \cap Cells(call'.extent) = {}
           /\ (\A k \in 1..Len(first) : Cells(first[k].extent) \subseteq Cells(call'.extent))
                  => Partition_is_empty(first')]_vars

\* a Clear that met two entries, one of them through the part of the extent
\* beyond the other, and left parts of the partition in place
C19_Witness ==
    /\ call.fn = "transition"
    /\ call.f.kind = "Clear"
    /\ Len(log) >= 2
    /\ log[1].extent # log[2].extent
    /\ first # <<>>

(***************************************************************************)
(* C20  HistoryTracker lifecycle.  A tracker created empty stays empty     *)
(* under update_regions_vec calls, and once an override_regions_vec call   *)
(* has completed is_empty() is false in every later state, whatever update *)
(* and override calls follow: no step leads back to the empty tracker.     *)
(***************************************************************************)
C20_Lifecycle ==
    [][/\ (is_empty(chain) /\ call'.fn = "update") => is_empty(chain')
       /\ (call'.fn = "override" /\ ~call'.panic) => ~is_empty(chain')
       /\ ~is_empty(chain) => ~is_empty(chain')]_vars

\* an override whose regions cover every node the tracker had: the old nodes
\* are all unlinked and the tracker holds the new node alone
C20_Witness ==
    /\ call.fn = "override"
    /\ ~call.panic
    /\ call.nodes >= 2
    /\ Len(chain) = 1
    /\ \E e \in 1..Len(log) : log[e].cb = "on_override"

(***************************************************************************)
(* C21  Degenerate regions are rejected by cut.  For regions self and tool *)
(* with start <= end of which one has zero extent in some dimension,       *)
(* self.cut(tool, splits) returns None.                                    *)
(***************************************************************************)
C21_CutRejectsDegenerate ==
    (/\ fnCall.fn = "cut" /\ fnRet # None
     /\ ~(Solid(fnCall.self) /\ Solid(fnCall.tool))) =>
        fnRet[1].out.ret = None

(***************************************************************************)
(* C22  on_create only for uncovered area.  During override_regions_vec,   *)
(* on_create is called exactly once for each leftover slab of the input    *)
(* regions that no existing node covered, and never for a region whose     *)
(* area is covered by a node that survives the call.                       *)
(***************************************************************************)
\* the regions on_create was called for, in the order of the calls
CreatedRegions == [e \in 1..Len(Callbacks(log, "on_create")) |->
                       Callbacks(log, "on_create")[e].value_region]

\* the number of elements of the list v that equal x
Count(v, x) == Cardinality({k \in 1..Len(v) : v[k] = x})

SameElements(v, w) ==
    /\ Len(v) = Len(w)
    /\ \A k \in 1..Len(v) : Count(v, v[k]) = Count(w, v[k])

NewestFirst ==
    Overrode(call) =>
        /\ \A c \in Created : \A k \in Kept : c < k
        /\ \A j, k \in Kept : j < k => call.ids[j] < call.ids[k]

\* the step is an update with one region that lies inside the regions of the
\* nodes the latest override created
UpdateInsideNewest ==
    /\ call = NoCall
    /\ Updated(call')
    /\ Len(call'.regions) = 1
    /\ Cells(call'.regions[1]) \subseteq UNION {Cells(chain[k].region) : k \in 1..newest}

C23_NewestFirst ==
    [][/\ NewestFirst'
       /\ UpdateInsideNewest =>
              \A e \in 1..Len(log') :
                  log'[e].cb = "on_update" /\ log'[e].value.id <= newest]_vars

\* an update inside the latest override whose region also lies in the region
\* of a node that survived that override
C23_Witness ==
    /\ Updated(call)
    /\ Len(call.regions) = 1
    /\ newest < Len(chain)
    /\ Cells(call.regions[1]) \subseteq UNION {Cells(chain[k].region) : k \in 1..newest}
    /\ \E k \in (newest + 1)..Len(chain) : intersects(chain[k].region, call.regions[1])
    /\ log # <<>>

(***************************************************************************)
(* C24  active_volume meaning.  In every state reached from the empty      *)
(* tracker by calls with pairwise-disjoint lists of regions with volume,   *)
(* the active_volume of each node is the volume of the part of its region  *)
(* that the regions of the nodes before it in the chain do not cover, and  *)
(* is strictly positive.                                                   *)
(***************************************************************************)
\* the cells of the region of node k that no node before k covers
Uncovered(k) ==
    Cells(chain[k].region) \ UNION {Cells(chain[j].region) : j \in 1..(k - 1)}

C24_ActiveVolume ==
    \A k \in 1..Len(chain) :
        /\ chain[k].active_volume = Cardinality(Uncovered(k))
        /\ chain[k].active_volume > 0

\* a node that survived an override which took a part of its region and left
\* it the rest
C24_Witness ==
    /\ Overrode(call)
    /\ \E k \in Kept :
           /\ chain[k].active_volume < volume(chain[k].region)
           /\ \E c \in Created : intersects(chain[c].region, chain[k].region)

(***************************************************************************)
(* C25  No active_volume underflow.  For any sequence of                   *)
(* override_regions_vec calls with non-empty region lists, lists whose     *)
(* regions overlap each other included, the volume chain_override          *)
(* subtracts from a node never exceeds the node's active_volume:           *)
(* active_volume stays within 0..volume(region) in every reachable state.  *)
(***************************************************************************)
C25_NoUnderflow ==
    \A k \in 1..Len(chain) :
        /\ 0 <= chain[k].active_volume
        /\ chain[k].active_volume <= volume(chain[k].region)

(***************************************************************************)
(* C26  cut slab decomposition.  Whenever self.cut(tool, splits) returns   *)
(* Some(count) for regions with volume: count is the number of regions     *)
(* appended to `splits` and is at most 2 * DIM; the appended splits come   *)
(* in ascending dimension order, the low-side slice before the high-side   *)
(* slice of the same dimension; a split of dimension a is clipped to the   *)
(* tool in the dimensions below a and keeps the extent of the original     *)
(* self in the dimensions above a; the splits are pairwise disjoint,       *)
(* disjoint from the tool, and together with the shrunk self cover exactly *)
(* the original self.                                                      *)
(***************************************************************************)
\* self clipped to the tool in the dimensions below a
ClippedBelow(self, tool, a) ==
    [start |-> [b \in 1..Dim(self) |->
                    IF b < a THEN Max2(self.start[b], tool.start[b]) ELSE self.start[b]],
     end   |-> [b \in 1..Dim(self) |->
                    IF b < a THEN Min2(self.end[b], tool.end[b]) ELSE self.end[b]]]

\* the slabs of dimension a: the part of self below the tool, then the part
\* above it
Slabs(self, tool, a) ==
    (IF self.start[a] < tool.start[a]
     THEN <<[ClippedBelow(self, tool, a) EXCEPT !.end[a] = tool.start[a]]>>
     ELSE <<>>)
    \o (IF self.end[a] > tool.end[a]
        THEN <<[ClippedBelow(self, tool, a) EXCEPT !.start[a] = tool.end[a]]>>
        ELSE <<>>)

RECURSIVE SlabsFrom(_, _, _)
\* the slabs of the dimensions a, a + 1, .., in that order
SlabsFrom(self, tool, a) ==
    IF a > Dim(self) THEN <<>> ELSE Slabs(self, tool, a) \o SlabsFrom(self, tool, a + 1)

C26_CutSlabs ==
    (/\ fnCall.fn = "cut" /\ fnRet # None
     /\ Solid(fnCall.self) /\ Solid(fnCall.tool)
     /\ fnRet[1].out.ret # None) =>
        /\ fnRet[1].out.ret[1] = Len(Appended(fnRet[1]))
        /\ fnRet[1].out.ret[1] <= 2 * Dim(fnCall.self)
        /\ Appended(fnRet[1]) = SlabsFrom(fnCall.self, fnCall.tool, 1)
        /\ PairwiseDisjoint(Appended(fnRet[1]))
        /\ \A k \in 1..Len(Appended(fnRet[1])) :
               /\ ~intersects(Appended(fnRet[1])[k], fnCall.tool)
               /\ ~intersects(Appended(fnRet[1])[k], fnRet[1].out.self)
        /\ Covered(Appended(fnRet[1])) \cup Cells(fnRet[1].out.self) = Cells(fnCall.self)
        /\ SubSeq(fnRet[1].out.splits, 1, Len(fnRet[1].before)) = fnRet[1].before

\* the cut of the test: a cube cut by a cube that overlaps its far corner,
\* which leaves one slab in each of the three dimensions
C26_Witness ==
    /\ fnCall.fn = "cut" /\ fnRet # None
    /\ Dim(fnCall.self) = 3
    /\ Solid(fnCall.self) /\ Solid(fnCall.tool)
    /\ fnRet[1].out.ret = Some(3)
    /\ \A a \in 1..3 : fnCall.self.start[a] < fnCall.tool.start[a]

(***************************************************************************)
(* C27  Partition callbacks do not overlap.  Within one call of            *)
(* Partition::transition(E, f) on a partition of two dimensions, the       *)
(* overlap extents passed to f together with a stored value are pairwise   *)
(* disjoint: f is called at most once for any point of any stored entry,   *)
(* whatever actions f returns.                                             *)
(***************************************************************************)
C27_CallbacksDisjoint ==
    call.fn = "transition" =>
        \A i, j \in 1..Len(log) :
            (i < j /\ log[i].value # None /\ log[j].value # None) =>
                Cells(log[i].extent) \cap Cells(log[j].extent) = {}

(***************************************************************************)
(* C28  Partition locality.  In every reachable partition state, for every *)
(* extent E and transition function f, after Partition::transition(E, f)   *)
(* each point outside E is covered by an entry if and only if it was       *)
(* covered before, and with the same value; a function that returns Ignore *)
(* leaves every point as it was.                                           *)
(***************************************************************************)
\* the unit cells of the domain of the partition
AllCells == [1..PartitionDim -> Coords(PartitionDim)]

\* the values of the entries of the chain v that cover the cell p
ValuesAt(v, p) == {v[k].value : k \in {j \in 1..Len(v) : p \in Cells(v[j].extent)}}

C28_Locality ==
    [][(call = NoCall /\ call'.fn = "transition") =>
           /\ \A p \in AllCells \ Cells(call'.extent) :
                  ValuesAt(first', p) = ValuesAt(first, p)
           /\ call'.f.kind = "Ignore" =>
                  \A p \in AllCells : ValuesAt(first', p) = ValuesAt(first, p)]_vars

\* an Update that met an entry which reaches beyond the extent: the part
\* inside has the new value, the part outside keeps the old one
C28_Witness ==
    /\ call.fn = "transition"
    /\ call.f.kind = "Update"
    /\ \E e \in 1..Len(log) : log[e].value # None /\ log[e].value # Some(call.f.value)
    /\ \E p \in AllCells \ Cells(call.extent) :
           ValuesAt(first, p) # {} /\ call.f.value \notin ValuesAt(first, p)
    /\ \E p \in Cells(call.extent) : ValuesAt(first, p) = {call.f.value}

(***************************************************************************)
(* C29  Partition disjointness.  In every state reached from               *)
(* Partition::new() by transition calls with extents with volume and any   *)
(* transition functions, the extents of two distinct stored entries do not *)
(* overlap and every stored extent has positive volume.                    *)
(***************************************************************************)
C29_EntriesDisjoint ==
    /\ \A i, j \in 1..Len(first) :
           i < j => Cells(first[i].extent) \cap Cells(first[j].extent) = {}
    /\ \A k \in 1..Len(first) : volume(first[k].extent) > 0

\* a partition of four entries
C29_Witness ==
    /\ Len(first) >= 4
    /\ \E i, j \in 1..Len(first) : first[i].value # first[j].value

(***************************************************************************)
(* C30  PlaceholderObjectSet image-view ids.  For any sequence of define   *)
(* calls on one PlaceholderObjectSet, the ImageViewId returned by          *)
(* define_external_image_view or define_internal_image_view resolves       *)
(* through get_image_view_info to the info passed to that call, and the    *)
(* ids returned for two different image views of the set are different.    *)
(***************************************************************************)
C30_ImageViewIds ==
    /\ \A k \in 1..Len(issued) :
           get_image_view_info(set, issued[k].id) =
               [panic |-> FALSE, ret |-> Some(issued[k].info)]
    /\ \A j, k \in 1..Len(issued) : j # k => issued[j].id # issued[k].id

====
